---------------------------- MODULE Spec2Model ----------------------------
(***************************************************************************)
(* Model of n64savegametools: the savegame adapters of savegame.py         *)
(* (Everdrive 64, Mupen64Plus combined image, Project64), the file-copy    *)
(* orchestrator of savecopy.py, and the byte swapper of byteswap.py.       *)
(*                                                                         *)
(* A Python bytes value is held run-length encoded: a sequence of runs     *)
(* <<b, e>>, the byte b filling the indices from the previous run's e up   *)
(* to e - 1.  Runs are kept canonical (e strictly increasing, neighbouring *)
(* runs of different bytes), so two values are equal exactly when the      *)
(* byte strings are.  Lengths and offsets are the real ones (a combined    *)
(* image is 296960 bytes long); every operator on a value is defined by    *)
(* what the Python operation does to the bytes at each index.              *)
(***************************************************************************)
EXTENDS Integers, Sequences, FiniteSets, TLC

Min(a, b) == IF a <= b THEN a ELSE b

Max(a, b) == IF a >= b THEN a ELSE b

(***************************************************************************)
(* bytes                                                                   *)
(***************************************************************************)

\* len(x)
BLen(x) == IF x = <<>> THEN 0 ELSE x[Len(x)][2]

\* bytes([b]) * n
Rep(b, n) == IF n <= 0 THEN <<>> ELSE << <<b, n>> >>

\* the index of the run that holds byte i of x (0 <= i < len(x))
RunOf(x, i) == CHOOSE k \in 1..Len(x) : x[k][2] > i /\ (k = 1 \/ x[k-1][2] <= i)

\* x[i]
ByteAt(x, i) == x[RunOf(x, i)][1]

\* the canonical form of a sequence of runs with strictly increasing ends: a run is kept
\* if it is the last of its byte
Canon(x) ==
    LET keep(k) == k = Len(x) \/ x[k][1] # x[k+1][1]
        idx == SelectSeq([k \in 1..Len(x) |-> k], keep)
    IN [j \in 1..Len(idx) |-> x[idx[j]]]

\* bytes(s) for an explicit sequence of byte values
FromSeq(s) == Canon([k \in 1..Len(s) |-> <<s[k], k>>])

\* x + y
Cat(x, y) ==
    IF x = <<>> THEN y
    ELSE IF y = <<>> THEN x
    ELSE LET n == BLen(x)
             ys == [k \in 1..Len(y) |-> <<y[k][1], y[k][2] + n>>]
         IN IF x[Len(x)][1] = y[1][1] THEN SubSeq(x, 1, Len(x) - 1) \o ys ELSE x \o ys

\* x[lo:hi] for 0 <= lo and 0 <= hi
Slice(x, lo, hi) ==
    LET h == Min(hi, BLen(x))
    IN IF lo >= h THEN <<>>
       ELSE LET first == RunOf(x, lo)
                last == RunOf(x, h - 1)
            IN [j \in 1..(last - first + 1) |-> <<x[first + j - 1][1], Min(x[first + j - 1][2], h) - lo>>]

\* x.ljust(n, bytes([b]))
Ljust(x, n, b) == IF BLen(x) >= n THEN x ELSE Cat(x, Rep(b, n - BLen(x)))

\* struct.pack("<n>s", x): x cut to n bytes, or filled up to n bytes with null bytes
PackS(x, n) == IF BLen(x) >= n THEN Slice(x, 0, n) ELSE Cat(x, Rep(0, n - BLen(x)))

(***************************************************************************)
(* byteswap.py                                                             *)
(***************************************************************************)

\* swap whose byteswap alone reverses the group, as both flags do
SwapSourceByteswapReverses(j, byteswap, halfwordswap) ==
    IF byteswap THEN 3 - j
    ELSE IF halfwordswap THEN (j + 2) % 4
    ELSE j

\* where byte j of a 4-byte group comes from
SwapSource(j, byteswap, halfwordswap) ==
    IF byteswap /\ halfwordswap THEN 3 - j
    ELSE IF byteswap THEN (IF j % 2 = 0 THEN j + 1 ELSE j - 1)
    ELSE IF halfwordswap THEN (j + 2) % 4
    ELSE j

\* swap(arr, byteswap, halfwordswap) raises IOError on this length
SwapRaises(x) == BLen(x) % 4 # 0

\* arr after swap(arr, byteswap, halfwordswap), for a length that is a multiple of 4
SwapFlags(x, byteswap, halfwordswap) ==
    LET n == BLen(x)
        at(i) == ByteAt(x, 4 * (i \div 4) + SwapSource(i % 4, byteswap, halfwordswap))
        \* the ends of the runs of the result are among the indices of the 4-byte groups
        \* that hold the end of a run of x
        near == [i \in 1..(5 * Len(x)) |-> 4 * (x[((i - 1) \div 5) + 1][2] \div 4) + ((i - 1) % 5)]
        cuts == SortSeq(SelectSeq(near, LAMBDA c : c >= 1 /\ c <= n), <)
        ends == SelectSeq([j \in 1..Len(cuts) |-> j], LAMBDA j : j = Len(cuts) \/ cuts[j] # cuts[j + 1])
    IN Canon([j \in 1..Len(ends) |-> <<at(cuts[ends[j]] - 1), cuts[ends[j]]>>])

\* swap(arr): both flags default to True
swap(x) == SwapFlags(x, TRUE, TRUE)

(***************************************************************************)
(* n64rominfo.py                                                           *)
(***************************************************************************)

\* _get_swapping_needed_for_little_endian raises IOError: the first byte is of no N64 ROM
SwappingNeededRaises(byte) == byte \notin {128, 55, 64, 18}

\* _get_swapping_needed_for_little_endian with the flags of 0x37 and 0x12 exchanged
SwappingNeededExchanged(byte) ==
    CASE byte = 128 -> <<TRUE, TRUE>>
      [] byte = 55 -> <<TRUE, FALSE>>
      [] byte = 64 -> <<FALSE, FALSE>>
      [] byte = 18 -> <<FALSE, TRUE>>

\* _get_swapping_needed_for_little_endian(byte, filepath): <<byteswap, halfwordswap>>
get_swapping_needed_for_little_endian(byte) ==
    CASE byte = 128 -> <<TRUE, TRUE>>     \* 0x80: .z64, big-endian
      [] byte = 55 -> <<FALSE, TRUE>>     \* 0x37: .v64, byte-swapped
      [] byte = 64 -> <<FALSE, FALSE>>    \* 0x40: .n64, little-endian
      [] byte = 18 -> <<TRUE, FALSE>>     \* 0x12: little-endian byte-swapped

\* the values of MediaFormat: N, C, D, E, Z
MediaFormat == {78, 67, 68, 69, 90}

\* the values of RegionCode: 7, A..L, N, P, S, U, W, X, Y
RegionCode == {55, 65, 66, 67, 68, 69, 70, 71, 72, 73, 74, 75, 76, 78, 80, 83, 85, 87, 88, 89}

\* the bytes of x as an explicit sequence
ToSeq(x) == [i \in 1..BLen(x) |-> ByteAt(x, i - 1)]

\* internal_name.partition(b'\x00')[0].decode("cp932").strip() for a name of ASCII bytes:
\* the bytes before the first NUL without leading and trailing white space
InternalName(field) ==
    LET raw == ToSeq(field)
        nul == {i \in 1..Len(raw) : raw[i] = 0}
        cut == IF nul = {} THEN Len(raw) ELSE (CHOOSE i \in nul : \A j \in nul : i <= j) - 1
        ink == {i \in 1..cut : raw[i] \notin {32, 9, 10, 11, 12, 13}}
    IN IF ink = {} THEN <<>>
       ELSE SubSeq(raw, CHOOSE i \in ink : \A j \in ink : i <= j,
                        CHOOSE i \in ink : \A j \in ink : i >= j)

\* hashlib.md5 of the bytes, as a hex digest: a function of the bytes alone
Md5HexDigest(x) == <<"md5", x>>

\* get_rom_info returns None
RomInfoNone == [none |-> TRUE]

\* get_rom_info(rom_path) lets an exception out: IndexError on an empty file, struct.error
\* on a file with less than 0x40 bytes (OSError and ValueError are caught)
GetRomInfoRaises(rom) ==
    \/ BLen(rom) = 0
    \/ /\ ~SwappingNeededRaises(ByteAt(rom, 0))
       /\ ~SwapRaises(rom)
       /\ BLen(rom) < 64

\* the file swapped to little-endian, which get_rom_info hashes
RomLittleEndian(rom) ==
    LET needed == get_swapping_needed_for_little_endian(ByteAt(rom, 0))
    IN SwapFlags(rom, needed[1], needed[2])

\* the N64RomInfo made of the big-endian header and of the hash, or None when MediaFormat or
\* RegionCode raises ValueError
N64RomInfo(rom_header, hash_little_endian_md5) ==
    IF ByteAt(rom_header, 59) \notin MediaFormat \/ ByteAt(rom_header, 62) \notin RegionCode
    THEN RomInfoNone
    ELSE [none |-> FALSE,
          crc1 |-> Slice(rom_header, 16, 20),
          crc2 |-> Slice(rom_header, 20, 24),
          internal_name |-> InternalName(Slice(rom_header, 32, 52)),
          media_format |-> ByteAt(rom_header, 59),
          game_id |-> Slice(rom_header, 60, 62),
          region_code |-> ByteAt(rom_header, 62),
          version |-> ByteAt(rom_header, 63) + 10,   \* in tenths: version / 10 + 1
          hash_little_endian_md5 |-> hash_little_endian_md5]

\* get_rom_info(rom_path) for a file with the bytes rom, calculate_md5_hash = True; the
\* header is swapped to big-endian once, then its fields are read
get_rom_info(rom) ==
    IF SwappingNeededRaises(ByteAt(rom, 0)) \/ SwapRaises(rom) THEN RomInfoNone
    ELSE CHOOSE rom_info \in
            {N64RomInfo(rom_header, Md5HexDigest(RomLittleEndian(rom))) :
                rom_header \in {swap(Slice(RomLittleEndian(rom), 0, 64))}} : TRUE

\* the name of the directory Project64 keeps the saves of a ROM in:
\* "{}-{}".format(rom_info.internal_name, rom_info.hash_little_endian_md5.upper())
Project64Directory(rom_info) == <<rom_info.internal_name, rom_info.hash_little_endian_md5>>

\* create_rom of the test: a big-endian ROM of 0x200 bytes with the given internal name
create_rom(game_name_bytestring) ==
    Ljust(Cat(Cat(Cat(Ljust(FromSeq(<<128, 55, 18, 64>>), 32, 0),
                      Ljust(FromSeq(game_name_bytestring), 20, 32)),
                  Rep(0, 7)),
              FromSeq(<<78, 88, 88, 69>>)),
          512, 0)

\* b"GAMENAME"
GameName == <<71, 65, 77, 69, 78, 65, 77, 69>>

\* the ROM of the conversions: the test's Game.z64, or a file that starts with no N64 ROM's byte
TestRom == create_rom(GameName)

BadRom == Cat(Rep(0, 1), Slice(TestRom, 1, 512))

\* Project64Savegame._get_save_files raises IOError, or get_rom_info's exception gets out
Project64SaveFilesRaises(rom) == GetRomInfoRaises(rom) \/ get_rom_info(rom).none

(***************************************************************************)
(* savegame.py: sizes, the formatted memory pak, the combined image        *)
(***************************************************************************)

\* _EEPROM_BYTESIZES
EEPROM_BYTESIZES == <<512, 2048>>

SRAM_BYTESIZE == 32768

MPK_BYTESIZE == 32768

FLASHRAM_BYTESIZE == 131072

\* the first 32 bytes of a formatted memory pak
MpkLabel == FromSeq(<<129, 1, 2, 3, 4, 5, 6, 7, 8, 9, 10, 11, 12, 13, 14, 15, 16,
                      17, 18, 19, 20, 21, 22, 23, 24, 25, 26, 27, 28, 29, 30, 31>>)

\* the 32-byte ID block of a formatted memory pak
MpkIdBlock == FromSeq(<<255, 255, 255, 255, 5, 26, 95, 19, 0, 0, 0, 0, 0, 0, 0, 0,
                        255, 255, 255, 255, 255, 255, 255, 255, 255, 255, 1, 255, 102, 37, 153, 205>>)

\* one 256-byte index table of a formatted memory pak: 00 71, then 127 times 00 03
MpkIndexTable == Cat(FromSeq(<<0, 113>>), [k \in 1..254 |-> <<IF k % 2 = 1 THEN 0 ELSE 3, k>>])

\* decompress(b64decode(_FORMATTED_MPK_BZ2_B64)): the first 768 bytes of a formatted memory pak
FormattedMpkHead ==
    Cat(MpkLabel, Cat(MpkIdBlock, Cat(Rep(0, 32), Cat(MpkIdBlock, Cat(MpkIdBlock, Cat(Rep(0, 32),
    Cat(MpkIdBlock, Cat(Rep(0, 32), Cat(MpkIndexTable, MpkIndexTable)))))))))

\* _FORMATTED_MPK
FORMATTED_MPK == Ljust(FormattedMpkHead, MPK_BYTESIZE, 0)

\* _MUPEN64PLUS_SRM_STRUCT with the sizes of the last two fields exchanged
MUPEN64PLUS_SRM_STRUCT_FlashramFirst ==
    <<EEPROM_BYTESIZES[2], MPK_BYTESIZE, MPK_BYTESIZE, MPK_BYTESIZE, MPK_BYTESIZE,
      FLASHRAM_BYTESIZE, SRAM_BYTESIZE>>

\* the field sizes of _MUPEN64PLUS_SRM_STRUCT, in order: eeprom, mpk1..mpk4, sram, flashram
MUPEN64PLUS_SRM_STRUCT ==
    <<EEPROM_BYTESIZES[2], MPK_BYTESIZE, MPK_BYTESIZE, MPK_BYTESIZE, MPK_BYTESIZE,
      SRAM_BYTESIZE, FLASHRAM_BYTESIZE>>

\* the offset of field j of the struct: the sizes of the fields before it
RECURSIVE StructOffset(_)
StructOffset(j) == IF j = 1 THEN 0 ELSE StructOffset(j - 1) + MUPEN64PLUS_SRM_STRUCT[j - 1]

\* struct.calcsize(_MUPEN64PLUS_SRM_STRUCT)
StructSize == StructOffset(8)

\* struct.pack(_MUPEN64PLUS_SRM_STRUCT, *fields)
RECURSIVE StructPackFrom(_, _)
StructPackFrom(fields, j) ==
    IF j > Len(fields) THEN <<>>
    ELSE Cat(PackS(fields[j], MUPEN64PLUS_SRM_STRUCT[j]), StructPackFrom(fields, j + 1))

StructPack(fields) == StructPackFrom(fields, 1)

\* struct.unpack(_MUPEN64PLUS_SRM_STRUCT, data) raises struct.error
StructUnpackRaises(data) == BLen(data) # StructSize

\* field j of struct.unpack(_MUPEN64PLUS_SRM_STRUCT, data)
StructField(data, j) == Slice(data, StructOffset(j), StructOffset(j) + MUPEN64PLUS_SRM_STRUCT[j])

(***************************************************************************)
(* savegame.py: _SaveData and the emptiness predicates                     *)
(***************************************************************************)

\* the components of a Savegame, in the order of the fields of the combined image
Kinds == <<"eeprom", "mpk1", "mpk2", "mpk3", "mpk4", "sram", "flashram">>

\* the order in which the split-file adapters back up, read and write the components
ExportOrder == <<"eeprom", "sram", "flashram", "mpk1", "mpk2", "mpk3", "mpk4">>

KindSet == {Kinds[j] : j \in 1..Len(Kinds)}

MpkKinds == {"mpk1", "mpk2", "mpk3", "mpk4"}

\* an Optional[_SaveData] that is None
None == [present |-> FALSE, data |-> <<>>, endianness |-> "BIG"]

\* _SaveData(data, endianness)
SaveData(data, endianness) == [present |-> TRUE, data |-> data, endianness |-> endianness]

\* _SaveData.set_endianness raises (swap's IOError)
SetEndiannessRaises(c, endianness) == c.endianness # endianness /\ SwapRaises(c.data)

\* _SaveData.set_endianness
set_endianness(c, endianness) ==
    IF c.endianness # endianness THEN SaveData(swap(c.data), endianness) ELSE c

\* _is_empty_data that takes only a fill of 0xFF for empty
IsEmptyDataOnlyFF(data) ==
    /\ data[1][1] = 255
    /\ \A k \in 1..Len(data) : data[k][1] = 255

\* _is_empty_data, for data that is not empty
is_empty_data(data) ==
    LET first_byte == data[1][1]
    IN /\ first_byte \in {0, 255}
       /\ \A k \in 1..Len(data) : data[k][1] = first_byte

\* _is_effectively_empty_memory_pak
is_effectively_empty_memory_pak(data) ==
    /\ Slice(data, 0, 258) = Slice(FORMATTED_MPK, 0, 258)
    /\ LET table == Slice(data, 266, 512)
       IN \A k \in 1..Len(table) : table[k][1] \in {0, 3}

\* _mpk_to_savegame_data
mpk_to_savegame_data(data) ==
    IF is_effectively_empty_memory_pak(data) THEN None ELSE SaveData(data, "BIG")

\* _strip_empty_data followed by _SaveData(data, endianness)
strip_empty_data(data, endianness) ==
    IF is_empty_data(data) THEN None ELSE SaveData(data, endianness)

(***************************************************************************)
(* The file system: a function from the paths of the files that exist to   *)
(* [data, mtime].  A path is the sequence of its parts below the root.     *)
(* "Game" is the stem of the ROM's file name, "GAMENAME" its internal      *)
(* name and "GAMENAME-HASH" the directory Project64 keeps its saves in.    *)
(***************************************************************************)

\* a backup path that keeps the directory and gives every file the one name "save"
BackupPathOneName(path) == SubSeq(path, 1, Len(path) - 1) \o <<"backup", "save">>

\* path.parent / "backup" / path.name
BackupPath(path) == SubSeq(path, 1, Len(path) - 1) \o <<"backup", path[Len(path)]>>

\* path.write_bytes(data); os.utime(path, ns=(..., mtime))
WriteFile(files, path, data, mtime) ==
    [q \in DOMAIN files \cup {path} |-> IF q = path THEN [data |-> data, mtime |-> mtime] ELSE files[q]]

\* src_path.replace(dst_path), for a src_path that exists
RenameFile(files, src_path, dst_path) ==
    [q \in (DOMAIN files \ {src_path}) \cup {dst_path} |-> IF q = dst_path THEN files[src_path] ELSE files[q]]

\* Everdrive64Savegame._get_save_files
EverdriveSaveFiles(savedir) ==
    [k \in KindSet |->
        CASE k = "eeprom" -> <<savedir, "Game.eep">>
          [] k = "sram" -> <<savedir, "Game.srm">>
          [] k = "flashram" -> <<savedir, "Game.fla">>
          [] k = "mpk1" -> <<savedir, "Game.mpk">>
          [] k = "mpk2" -> <<savedir, "Game_Cont_2.mpk">>
          [] k = "mpk3" -> <<savedir, "Game_Cont_3.mpk">>
          [] k = "mpk4" -> <<savedir, "Game_Cont_4.mpk">>]

\* Mupen64PlusSavegame._get_save_file
Mupen64PlusSaveFile(savedir) == <<savedir, "Game.srm">>

\* Project64Savegame._get_save_files
Project64SaveFiles(savedir) ==
    [k \in KindSet |->
        CASE k = "eeprom" -> <<savedir, "GAMENAME-HASH", "GAMENAME.eep">>
          [] k = "sram" -> <<savedir, "GAMENAME-HASH", "GAMENAME.sra">>
          [] k = "flashram" -> <<savedir, "GAMENAME-HASH", "GAMENAME.fla">>
          [] k = "mpk1" -> <<savedir, "GAMENAME-HASH", "GAMENAME_Cont_1.mpk">>
          [] k = "mpk2" -> <<savedir, "GAMENAME-HASH", "GAMENAME_Cont_2.mpk">>
          [] k = "mpk3" -> <<savedir, "GAMENAME-HASH", "GAMENAME_Cont_3.mpk">>
          [] k = "mpk4" -> <<savedir, "GAMENAME-HASH", "GAMENAME_Cont_4.mpk">>]

\* the files of a format's layout in a save directory, by component
SaveFilesOf(format, savedir) ==
    CASE format = "EVERDRIVE" -> EverdriveSaveFiles(savedir)
      [] format = "PROJECT64" -> Project64SaveFiles(savedir)
      [] format = "MUPEN64PLUS" -> [k \in KindSet |-> Mupen64PlusSaveFile(savedir)]

\* the largest element of a finite non-empty set of integers
SetMax(S) == CHOOSE m \in S : \A t \in S : m >= t

\* _get_modified_timestamp
get_modified_timestamp(files, path) == IF path \in DOMAIN files THEN files[path].mtime ELSE 0

\* _get_timestamp_for_newest_save_file
get_timestamp_for_newest_save_file(files, save_files) ==
    SetMax({0} \cup {get_modified_timestamp(files, save_files[k]) : k \in KindSet})

\* Savegame.timestamp after _set_timestamp_if_newer on every file of paths that exists
TimestampOf(files, paths) == SetMax({0} \cup {files[q].mtime : q \in paths \cap DOMAIN files})

(***************************************************************************)
(* savegame.py: Savegame and import_from_disk                              *)
(***************************************************************************)

\* a new Savegame: the class attributes
NewSavegame == [comp |-> [k \in KindSet |-> None], timestamp |-> 0]

\* Savegame.has_save
has_save(sg) == \E k \in KindSet : sg.comp[k].present

\* Everdrive64Savegame.import_from_disk
EverdriveImport(files, savedir) ==
    LET save_files == EverdriveSaveFiles(savedir)
    IN [comp |-> [k \in KindSet |->
                    IF save_files[k] \in DOMAIN files
                    THEN SaveData(files[save_files[k]].data, "BIG") ELSE None],
        timestamp |-> TimestampOf(files, {save_files[k] : k \in KindSet})]

\* Project64Savegame.import_from_disk
Project64Import(files, savedir) ==
    LET save_files == Project64SaveFiles(savedir)
        read(k) == files[save_files[k]].data
    IN [comp |-> [k \in KindSet |->
                    IF save_files[k] \notin DOMAIN files THEN None
                    ELSE CASE k = "eeprom" -> SaveData(read(k), "BIG")
                           [] k = "sram" -> SaveData(read(k), "LITTLE")
                           [] k = "flashram" -> SaveData(Ljust(read(k), FLASHRAM_BYTESIZE, 0), "LITTLE")
                           [] OTHER -> mpk_to_savegame_data(read(k))],
        timestamp |-> TimestampOf(files, {save_files[k] : k \in KindSet})]

\* Mupen64PlusSavegame.import_from_disk raises (struct.error)
Mupen64PlusImportRaises(files, savedir) ==
    /\ Mupen64PlusSaveFile(savedir) \in DOMAIN files
    /\ StructUnpackRaises(files[Mupen64PlusSaveFile(savedir)].data)

\* Mupen64PlusImportEeprom without the 512-byte case: the whole field is the EEPROM
Mupen64PlusImportEepromWholeField(field) ==
    IF is_empty_data(field) THEN None ELSE SaveData(field, "BIG")

\* the EEPROM that Mupen64PlusSavegame.import_from_disk takes from the eeprom field
Mupen64PlusImportEeprom(field) ==
    IF is_empty_data(field) THEN None
    ELSE IF is_empty_data(Slice(field, EEPROM_BYTESIZES[1], EEPROM_BYTESIZES[2]))
         THEN SaveData(Slice(field, 0, EEPROM_BYTESIZES[1]), "BIG")
         ELSE SaveData(field, "BIG")

\* Mupen64PlusSavegame.import_from_disk
Mupen64PlusImport(files, savedir) ==
    LET save_file == Mupen64PlusSaveFile(savedir)
    IN IF save_file \notin DOMAIN files THEN NewSavegame
       ELSE LET srm == [j \in 1..7 |-> StructField(files[save_file].data, j)]
            IN [comp |-> [k \in KindSet |->
                            CASE k = "eeprom" -> Mupen64PlusImportEeprom(srm[1])
                              [] k = "mpk1" -> mpk_to_savegame_data(srm[2])
                              [] k = "mpk2" -> mpk_to_savegame_data(srm[3])
                              [] k = "mpk3" -> mpk_to_savegame_data(srm[4])
                              [] k = "mpk4" -> mpk_to_savegame_data(srm[5])
                              [] k = "sram" -> strip_empty_data(srm[6], "LITTLE")
                              [] k = "flashram" -> strip_empty_data(srm[7], "LITTLE")],
                timestamp |-> TimestampOf(files, {save_file})]

\* import_from_disk of the format's class raises
ImportRaises(format, files, savedir) ==
    format = "MUPEN64PLUS" /\ Mupen64PlusImportRaises(files, savedir)

\* import_from_disk of the format's class, on a new Savegame
ImportFromDisk(format, files, savedir) ==
    CASE format = "EVERDRIVE" -> EverdriveImport(files, savedir)
      [] format = "PROJECT64" -> Project64Import(files, savedir)
      [] format = "MUPEN64PLUS" -> Mupen64PlusImport(files, savedir)

(***************************************************************************)
(* savegame.py: export_to_disk                                             *)
(***************************************************************************)

\* DiskEndianness with Project64's SRAM and FlashRAM big-endian as in Everdrive files
DiskEndiannessOnlyImageLittle(format, k) ==
    IF format = "MUPEN64PLUS" /\ k \in {"sram", "flashram"} THEN "LITTLE" ELSE "BIG"

\* the endianness a format's export_to_disk gives a component on disk
DiskEndianness(format, k) ==
    IF format \in {"PROJECT64", "MUPEN64PLUS"} /\ k \in {"sram", "flashram"} THEN "LITTLE" ELSE "BIG"

\* ExportSkips comparing with > where the code compares with >=
ExportSkipsOnlyIfNewer(format, files, savedir, force, timestamp) ==
    /\ ~force
    /\ IF format = "MUPEN64PLUS"
       THEN /\ Mupen64PlusSaveFile(savedir) \in DOMAIN files
            /\ files[Mupen64PlusSaveFile(savedir)].mtime > timestamp
       ELSE get_timestamp_for_newest_save_file(files, SaveFilesOf(format, savedir)) > timestamp

\* export_to_disk returns early: the existing savegame is the same or newer
ExportSkips(format, files, savedir, force, timestamp) ==
    /\ ~force
    /\ IF format = "MUPEN64PLUS"
       THEN /\ Mupen64PlusSaveFile(savedir) \in DOMAIN files
            /\ files[Mupen64PlusSaveFile(savedir)].mtime >= timestamp
       ELSE get_timestamp_for_newest_save_file(files, SaveFilesOf(format, savedir)) >= timestamp

\* BackupPaths with the EEPROM file alone where the code walks every file of the layout
BackupPathsEepromOnly(format, savedir) ==
    IF format = "MUPEN64PLUS" THEN <<Mupen64PlusSaveFile(savedir)>>
    ELSE <<SaveFilesOf(format, savedir)["eeprom"]>>

\* the paths export_to_disk passes to _backup_save_file, in order
BackupPaths(format, savedir) ==
    IF format = "MUPEN64PLUS" THEN <<Mupen64PlusSaveFile(savedir)>>
    ELSE [j \in 1..Len(ExportOrder) |-> SaveFilesOf(format, savedir)[ExportOrder[j]]]

\* Mupen64PlusDefault with a null-filled pak where the code takes the formatted pak
Mupen64PlusDefaultNullPak(k) ==
    CASE k = "eeprom" -> SaveData(<<>>, "BIG")
      [] k = "sram" -> SaveData(Rep(255, SRAM_BYTESIZE), "LITTLE")
      [] k = "flashram" -> SaveData(Rep(255, FLASHRAM_BYTESIZE), "LITTLE")
      [] OTHER -> SaveData(Rep(1, MPK_BYTESIZE), "BIG")

\* the _SaveData Mupen64PlusSavegame.export_to_disk packs for a component: its own, or the default
Mupen64PlusDefault(k) ==
    CASE k = "eeprom" -> SaveData(<<>>, "BIG")
      [] k = "sram" -> SaveData(Rep(255, SRAM_BYTESIZE), "LITTLE")
      [] k = "flashram" -> SaveData(Rep(255, FLASHRAM_BYTESIZE), "LITTLE")
      [] OTHER -> SaveData(FORMATTED_MPK, "BIG")

Mupen64PlusLocal(sg, k) == IF sg.comp[k].present THEN sg.comp[k] ELSE Mupen64PlusDefault(k)

\* the order in which Mupen64PlusSavegame.export_to_disk calls set_endianness
Mupen64PlusSwapOrder == <<"eeprom", "sram", "mpk1", "mpk2", "mpk3", "mpk4", "flashram">>

\* the first position of Mupen64PlusSwapOrder whose set_endianness raises, or 0
Mupen64PlusFirstRaise(sg) ==
    LET bad == {j \in 1..7 : SetEndiannessRaises(Mupen64PlusLocal(sg, Mupen64PlusSwapOrder[j]),
                                                 DiskEndianness("MUPEN64PLUS", Mupen64PlusSwapOrder[j]))}
    IN IF bad = {} THEN 0 ELSE CHOOSE j \in bad : \A i \in bad : j <= i

\* the Savegame after Mupen64PlusSavegame.export_to_disk: its own components were swapped in place
Mupen64PlusAfterExport(sg) ==
    LET stop == Mupen64PlusFirstRaise(sg)
        done(k) == \E j \in 1..7 : Mupen64PlusSwapOrder[j] = k /\ (stop = 0 \/ j < stop)
    IN [sg EXCEPT !.comp = [k \in KindSet |->
            IF sg.comp[k].present /\ done(k)
            THEN set_endianness(sg.comp[k], DiskEndianness("MUPEN64PLUS", k)) ELSE sg.comp[k]]]

\* the combined image Mupen64PlusSavegame.export_to_disk writes
Mupen64PlusImage(sg) ==
    StructPack([j \in 1..7 |->
        set_endianness(Mupen64PlusLocal(sg, Kinds[j]), DiskEndianness("MUPEN64PLUS", Kinds[j])).data])

(***************************************************************************)
(* savecopy.py                                                             *)
(***************************************************************************)

\* SaveFiles._fields, the list mpks spelled out
CopyKeys == <<"eeprom", "sram", "flashram", "mpk", "mpks1", "mpks2", "mpks3", "mpks4">>

CopyKeySet == {CopyKeys[j] : j \in 1..Len(CopyKeys)}

\* little_endian
little_endian(format) == IF format \in {"PJ64", "RETROARCH"} THEN {"sram", "flashram"} ELSE {}

\* unpadded
unpadded(format) == IF format = "PJ64" THEN {"flashram"} ELSE {}

\* expected_bytesizes["flashram"]
ExpectedFlashramBytesize == 131072

\* _get_possible_save_files raises NotImplementedError
PossibleSaveFilesRaises(format) == format \notin {"ED64", "PJ64"}

\* _get_possible_save_files lets an exception out: NotImplementedError, or one of get_rom_info
PossibleSaveFilesFails(format, rom_bytes) ==
    PossibleSaveFilesRaises(format) \/ (format = "PJ64" /\ GetRomInfoRaises(rom_bytes))

\* _get_possible_save_files returns None: get_rom_info gave no info for the Project64 directory
PossibleSaveFilesNone(format, rom_bytes) ==
    format = "PJ64" /\ ~GetRomInfoRaises(rom_bytes) /\ get_rom_info(rom_bytes).none

\* _get_possible_save_files, for the test's ROM
get_possible_save_files(format, savedir) ==
    LET dir == IF format = "ED64" THEN <<savedir>> ELSE <<savedir, "GAMENAME-HASH">>
        name == [k \in CopyKeySet |->
                    IF format = "ED64"
                    THEN CASE k = "eeprom" -> "Game.eep" [] k = "sram" -> "Game.srm"
                           [] k = "flashram" -> "Game.fla" [] k = "mpk" -> "Game.mpk"
                           [] k = "mpks1" -> "Game_Cont_1.mpk" [] k = "mpks2" -> "Game_Cont_2.mpk"
                           [] k = "mpks3" -> "Game_Cont_3.mpk" [] k = "mpks4" -> "Game_Cont_4.mpk"
                    ELSE CASE k = "eeprom" -> "GAMENAME.eep" [] k = "sram" -> "GAMENAME.sra"
                           [] k = "flashram" -> "GAMENAME.fla" [] k = "mpk" -> "GAMENAME.mpk"
                           [] k = "mpks1" -> "GAMENAME_Cont_1.mpk" [] k = "mpks2" -> "GAMENAME_Cont_2.mpk"
                           [] k = "mpks3" -> "GAMENAME_Cont_3.mpk" [] k = "mpks4" -> "GAMENAME_Cont_4.mpk"]
    IN [k \in CopyKeySet |-> dir \o <<name[k]>>]

\* _get_actual_save_files that takes the EEPROM file for present without looking
GetActualSaveFilesEepromAssumed(files, format, savedir) ==
    {k \in CopyKeySet : k = "eeprom" \/ get_possible_save_files(format, savedir)[k] \in DOMAIN files}

\* _get_actual_save_files: the keys whose possible file exists
get_actual_save_files(files, format, savedir) ==
    {k \in CopyKeySet : get_possible_save_files(format, savedir)[k] \in DOMAIN files}

\* _get_actual_save_files raises OSError: a ROM-filename-matching and a controller-specific memory pak
ActualSaveFilesRaises(files, format, savedir) ==
    LET actual == get_actual_save_files(files, format, savedir)
    IN "mpk" \in actual /\ actual \cap {"mpks1", "mpks2", "mpks3", "mpks4"} # {}

\* _copy_save_files: swap_endianness for a key
CopySwaps(src_format, dst_format, k) ==
    k \notin {"mpks1", "mpks2", "mpks3", "mpks4"}
    /\ (k \in little_endian(src_format)) # (k \in little_endian(dst_format))

\* _copy_save_files: pad_to for a key, 0 standing for None
CopyPadTo(src_format, k) ==
    IF k \notin {"mpks1", "mpks2", "mpks3", "mpks4"} /\ k \in unpadded(src_format)
    THEN ExpectedFlashramBytesize ELSE 0

\* _copy_file raises: swap's IOError, or OSError "Savefile is too large"
CopyFileRaises(data, swap_endianness, pad_to) ==
    \/ swap_endianness /\ SwapRaises(data)
    \/ pad_to # 0 /\ pad_to - BLen(data) < 0

\* the bytes _copy_file writes
CopyFileData(data, swap_endianness, pad_to) ==
    LET swapped == IF swap_endianness THEN swap(data) ELSE data
    IN IF pad_to # 0 THEN Ljust(swapped, pad_to, 0) ELSE swapped

(***************************************************************************)
(* The save directories the conversions start from                         *)
(***************************************************************************)

\* the number of conversions run one after the other with the same arguments
MaxRuns == 2

\* modification times range over 0..MaxTime
MaxTime == 1

\* test_savecopy.py, create_file: bytestring.ljust(total_size, b"\x00")
Tagged(bytestring, total_size) == Ljust(FromSeq(bytestring), total_size, 0)

Eepr == <<101, 101, 112, 114>>

Sram == <<115, 114, 97, 109>>

Mars == <<109, 97, 114, 115>>

Flas == <<102, 108, 97, 115>>

Salf == <<115, 97, 108, 102>>

Mpk(n) == <<109, 112, 107, 48 + n>>

Old(n) == <<111, 108, 100, 48 + n>>

File(data, older) == [data |-> data, older |-> older]

\* the content of source directory A; the files marked older were modified before the others
SourceDisk(d) ==
    CASE d = 1 ->   \* the Everdrive save of test_convert_ed64_to_all_others
            (<<"A", "Game.eep">> :> File(Tagged(Eepr, 512), TRUE))
            @@ (<<"A", "Game.mpk">> :> File(Tagged(Mpk(1), 32768), TRUE))
            @@ (<<"A", "Game_Cont_2.mpk">> :> File(Tagged(Mpk(2), 32768), TRUE))
            @@ (<<"A", "Game_Cont_3.mpk">> :> File(Tagged(Mpk(3), 32768), TRUE))
            @@ (<<"A", "Game_Cont_4.mpk">> :> File(Tagged(Mpk(4), 32768), TRUE))
            @@ (<<"A", "Game.srm">> :> File(Tagged(Sram, 32768), FALSE))
            @@ (<<"A", "Game.fla">> :> File(Tagged(Flas, 131072), TRUE))
      [] d = 2 ->   \* Everdrive: a 2048-byte EEPROM, an SRAM of 0xFF; Project64: a short FlashRAM, a formatted pak
            (<<"A", "Game.eep">> :> File(Cat(Tagged(Eepr, 512), Tagged(<<1, 2, 3, 4>>, 1536)), FALSE))
            @@ (<<"A", "Game.srm">> :> File(Rep(255, 32768), TRUE))
            @@ (<<"A", "GAMENAME-HASH", "GAMENAME.eep">> :> File(Tagged(Eepr, 512), TRUE))
            @@ (<<"A", "GAMENAME-HASH", "GAMENAME.sra">> :> File(Tagged(Mars, 32768), FALSE))
            @@ (<<"A", "GAMENAME-HASH", "GAMENAME.fla">> :> File(FromSeq(Salf \o <<1, 2, 3, 4>>), TRUE))
            @@ (<<"A", "GAMENAME-HASH", "GAMENAME_Cont_1.mpk">> :> File(FORMATTED_MPK, TRUE))
            @@ (<<"A", "GAMENAME-HASH", "GAMENAME_Cont_2.mpk">> :> File(Tagged(Mpk(2), 32768), TRUE))
      [] d = 3 ->   \* an SRAM and a FlashRAM four bytes larger than their fixed sizes
            (<<"A", "Game.eep">> :> File(Tagged(Eepr, 512), TRUE))
            @@ (<<"A", "Game.srm">> :> File(Cat(Tagged(Sram, 32768), FromSeq(<<9, 8, 7, 6>>)), FALSE))
            @@ (<<"A", "GAMENAME-HASH", "GAMENAME.fla">> :> File(Cat(Tagged(Salf, 131072), FromSeq(<<9, 8, 7, 6>>)), FALSE))
      [] d = 4 ->   \* an SRAM of six bytes
            (<<"A", "Game.eep">> :> File(Tagged(Eepr, 512), FALSE))
            @@ (<<"A", "Game.srm">> :> File(FromSeq(Sram \o <<1, 2>>), TRUE))
            @@ (<<"A", "GAMENAME-HASH", "GAMENAME.sra">> :> File(FromSeq(Mars \o <<1, 2>>), FALSE))
      [] d = 5 ->   \* Everdrive: an EEPROM of 512 null bytes; Project64: an EEPROM of 512 bytes 0xFF
            (<<"A", "Game.eep">> :> File(Rep(0, 512), FALSE))
            @@ (<<"A", "GAMENAME-HASH", "GAMENAME.eep">> :> File(Rep(255, 512), FALSE))
      [] d = 6 ->   \* a combined image: EEPROM, four memory paks and SRAM
            (<<"A", "Game.srm">> :> File(StructPack(<<Tagged(Eepr, 512), Tagged(Mpk(1), 32768),
                    Tagged(Mpk(2), 32768), Tagged(Mpk(3), 32768), Tagged(Mpk(4), 32768),
                    Tagged(Mars, 32768), Rep(255, 131072)>>), FALSE))
      [] OTHER ->   \* no save
            [q \in {} |-> File(<<>>, FALSE)]

NumDisks == 7

\* the content of destination directory B when it already holds saves
DestinationDisk ==
    (<<"B", "Game.eep">> :> Tagged(Old(1), 512))
    @@ (<<"B", "Game.srm">> :> Tagged(Old(2), 32768))
    @@ (<<"B", "GAMENAME-HASH", "GAMENAME.eep">> :> Tagged(Old(3), 512))
    @@ (<<"B", "GAMENAME-HASH", "GAMENAME.sra">> :> Tagged(Old(4), 32768))

Older(t) == IF t = 0 THEN 0 ELSE t - 1

InitialFiles(d, srcT, populated, dstT) ==
    LET source == SourceDisk(d)
        dest == IF populated THEN DOMAIN DestinationDisk ELSE {}
    IN [q \in DOMAIN source \cup dest |->
            IF q \in DOMAIN source
            THEN [data |-> source[q].data, mtime |-> IF source[q].older THEN Older(srcT) ELSE srcT]
            ELSE [data |-> DestinationDisk[q], mtime |-> dstT]]

(***************************************************************************)
(* The conversions                                                         *)
(***************************************************************************)

Formats == {"EVERDRIVE", "MUPEN64PLUS", "PROJECT64"}

\* savecopy.py, SaveFormat
SaveFormat == {"ED64", "PJ64", "RETROARCH"}

\* import_from_disk from directory A, then export_to_disk into directory B (savegame.py)
SavegameConfigs ==
    [prog : {"savegame"}, src : Formats, dst : Formats, srcdir : {"A"}, dstdir : {"B"},
     backup : BOOLEAN, force : BOOLEAN]

\* copy_saves_for_rom from directory A into directory A or B (savecopy.py); it always backs up
CopyConfigs ==
    [prog : {"savecopy"}, src : SaveFormat, dst : SaveFormat, srcdir : {"A"}, dstdir : {"A", "B"},
     backup : {TRUE}, force : {TRUE}]

NoConfig ==
    [prog |-> "none", src |-> "none", dst |-> "none", srcdir |-> "A", dstdir |-> "B",
     backup |-> FALSE, force |-> FALSE]

VARIABLES
    fs,       \* the file system
    cfg,      \* the arguments of the conversion
    run,      \* the number of conversions started
    pc,       \* "idle", "imported", "backup", "write", "done"
    idx,      \* the position, in the list a phase walks, of the file its next step handles
    source,   \* the Savegame import_from_disk filled
    sg,       \* the Savegame export_to_disk writes
    pre,      \* the file system when the conversion started
    ops,      \* the file operations of the conversion so far: <<"read" | "rename" | "write", path>>
    result,   \* "none", "ok", "skipped", "nosave", "error", "import_error", "identity_error"
    prev,     \* ops and result of the conversion before this one
    rom,      \* the bytes of the ROM file the conversion is for
    swap_call,   \* a call of swap: its arguments and its outcome
    rom_call,    \* a call of get_rom_info: the bytes of the file and the outcome
    batch        \* a run of copy_saves_for_all_roms

vars == <<fs, cfg, run, pc, idx, source, sg, pre, ops, result, prev, rom, swap_call, rom_call, batch>>

\* what the conversion of one ROM never changes
others == <<rom, swap_call, rom_call, batch>>

\* no call of swap, of get_rom_info or of copy_saves_for_all_roms is under way
NoCall == [state |-> "none"]

\* the source directories that are also tried with the file that is no ROM
BadRomDisks == {2, 7}

Init ==
    /\ \E d \in 1..NumDisks, srcT \in 0..MaxTime, populated \in BOOLEAN, dstT \in 0..MaxTime :
          /\ populated \/ dstT = 0
          /\ fs = InitialFiles(d, srcT, populated, dstT)
          /\ rom = TestRom \/ (rom = BadRom /\ d \in BadRomDisks)
    /\ swap_call = NoCall
    /\ rom_call = NoCall
    /\ batch = NoCall
    /\ cfg = NoConfig
    /\ run = 0
    /\ pc = "idle"
    /\ idx = 0
    /\ source = NewSavegame
    /\ sg = NewSavegame
    /\ pre = fs
    /\ ops = <<>>
    /\ result = "none"
    /\ prev = [ops |-> <<>>, result |-> "none"]

\* the least element of S that is at least from, or 0
NextIn(S, from) ==
    IF \E j \in S : j >= from THEN CHOOSE j \in S : j >= from /\ \A i \in S : i >= from => j <= i ELSE 0

\* the paths the backup phase walks
BackupList(c) ==
    IF c.prog = "savegame" THEN BackupPaths(c.dst, c.dstdir)
    ELSE [j \in 1..Len(CopyKeys) |-> get_possible_save_files(c.dst, c.dstdir)[CopyKeys[j]]]

\* the positions of BackupList whose file is renamed: savegame.py's _backup_save_file looks
\* whether the file exists, savecopy.py's _backup_save_files walks the files found at the start
BackupDue(c, files, before) ==
    {j \in 1..Len(BackupList(c)) :
        BackupList(c)[j] \in DOMAIN (IF c.prog = "savegame" THEN files ELSE before)}

\* the positions the write phase handles: the components that are not None (savegame.py, split
\* files), the one combined image, or the source files found at the start (savecopy.py)
WriteDue(c, savegame, before) ==
    IF c.prog = "savecopy"
    THEN {j \in 1..Len(CopyKeys) : get_possible_save_files(c.src, c.srcdir)[CopyKeys[j]] \in DOMAIN before}
    ELSE IF c.dst = "MUPEN64PLUS" THEN {1}
    ELSE {j \in 1..Len(ExportOrder) : savegame.comp[ExportOrder[j]].present}

\* the write phase starts, or there is nothing to write
EnterWrite(c, savegame, before) ==
    LET j == NextIn(WriteDue(c, savegame, before), 1)
    IN IF j # 0
       THEN pc' = "write" /\ idx' = j /\ result' = "none"
       ELSE pc' = "done" /\ idx' = 0 /\ result' = "ok"

\* the backup phase starts if a backup is asked for and a file is there to rename
EnterBackup(c, savegame, files, before) ==
    LET j == NextIn(BackupDue(c, files, before), 1)
    IN IF c.backup /\ j # 0
       THEN pc' = "backup" /\ idx' = j /\ result' = "none"
       ELSE EnterWrite(c, savegame, before)

\* a conversion starts: a first one with any arguments, a later one with the same arguments
Starts(c) ==
    /\ pc \in {"idle", "done"}
    /\ run < MaxRuns
    /\ run = 0 \/ c = cfg
    /\ cfg' = c
    /\ run' = run + 1
    /\ pre' = fs
    /\ prev' = [ops |-> ops, result |-> result]
    /\ UNCHANGED others

\* the files of a layout that import_from_disk reads, in order
ImportReads(format, files, savedir) ==
    LET paths == BackupPaths(format, savedir)
    IN [j \in 1..Len(SelectSeq(paths, LAMBDA q : q \in DOMAIN files)) |->
            <<"read", SelectSeq(paths, LAMBDA q : q \in DOMAIN files)[j]>>]

\* src = SrcClass().import_from_disk(rom_path, src_savedir)
Import ==
    \E c \in SavegameConfigs :
        /\ Starts(c)
        /\ UNCHANGED <<fs, sg>>
        /\ idx' = 0
        /\ IF c.src = "PROJECT64" /\ Project64SaveFilesRaises(rom)
           THEN /\ source' = NewSavegame
                /\ ops' = <<>>
                /\ pc' = "done"
                /\ result' = "identity_error"
           ELSE IF ImportRaises(c.src, fs, c.srcdir)
           THEN /\ source' = NewSavegame
                /\ ops' = <<<<"read", Mupen64PlusSaveFile(c.srcdir)>>>>
                /\ pc' = "done"
                /\ result' = "import_error"
           ELSE /\ source' = ImportFromDisk(c.src, fs, c.srcdir)
                /\ ops' = ImportReads(c.src, fs, c.srcdir)
                /\ pc' = "imported"
                /\ result' = "none"

\* DstClass().import_from_savegame(src).export_to_disk(rom_path, dst_savedir, backup, force),
\* up to its early return
ExportBegin ==
    /\ pc = "imported"
    /\ sg' = source
    /\ UNCHANGED <<fs, cfg, run, source, pre, ops, prev>>
    /\ UNCHANGED others
    /\ IF cfg.dst = "PROJECT64" /\ Project64SaveFilesRaises(rom)
       THEN pc' = "done" /\ idx' = 0 /\ result' = "identity_error"
       ELSE IF ExportSkips(cfg.dst, fs, cfg.dstdir, cfg.force, source.timestamp)
       THEN pc' = "done" /\ idx' = 0 /\ result' = "skipped"
       ELSE EnterBackup(cfg, source, fs, pre)

\* _backup_save_file (savegame.py) or _replace_file (savecopy.py) on the next file that is there
BackupSaveFile ==
    /\ pc = "backup"
    /\ LET path == BackupList(cfg)[idx]
           j == NextIn(BackupDue(cfg, fs, pre), idx + 1)
       IN /\ fs' = RenameFile(fs, path, BackupPath(path))
          /\ ops' = Append(ops, <<"rename", path>>)
          /\ IF j # 0
             THEN pc' = "backup" /\ idx' = j /\ result' = "none"
             ELSE EnterWrite(cfg, sg, pre)
    /\ UNCHANGED <<cfg, run, source, sg, pre, prev>>
    /\ UNCHANGED others

\* Savegame._export_to_file on the next component that is not None (Everdrive 64, Project64)
ExportToFile ==
    /\ pc = "write"
    /\ cfg.prog = "savegame"
    /\ cfg.dst # "MUPEN64PLUS"
    /\ LET k == ExportOrder[idx]
           path == SaveFilesOf(cfg.dst, cfg.dstdir)[k]
           endianness == DiskEndianness(cfg.dst, k)
           j == NextIn(WriteDue(cfg, sg, pre), idx + 1)
       IN IF SetEndiannessRaises(sg.comp[k], endianness)
          THEN /\ pc' = "done" /\ idx' = 0 /\ result' = "error"
               /\ UNCHANGED <<fs, sg, ops>>
          ELSE /\ sg' = [sg EXCEPT !.comp[k] = set_endianness(sg.comp[k], endianness)]
               /\ fs' = WriteFile(fs, path, sg'.comp[k].data, sg.timestamp)
               /\ ops' = Append(ops, <<"write", path>>)
               /\ IF j # 0
                  THEN pc' = "write" /\ idx' = j /\ result' = "none"
                  ELSE pc' = "done" /\ idx' = 0 /\ result' = "ok"
    /\ UNCHANGED <<cfg, run, source, pre, prev>>
    /\ UNCHANGED others

\* Mupen64PlusSavegame.export_to_disk from its defaults on: pack the combined image and write it
ExportImage ==
    /\ pc = "write"
    /\ cfg.prog = "savegame"
    /\ cfg.dst = "MUPEN64PLUS"
    /\ sg' = Mupen64PlusAfterExport(sg)
    /\ pc' = "done"
    /\ idx' = 0
    /\ IF Mupen64PlusFirstRaise(sg) # 0
       THEN /\ result' = "error"
            /\ UNCHANGED <<fs, ops>>
       ELSE /\ result' = "ok"
            /\ fs' = WriteFile(fs, Mupen64PlusSaveFile(cfg.dstdir), Mupen64PlusImage(sg), sg.timestamp)
            /\ ops' = Append(ops, <<"write", Mupen64PlusSaveFile(cfg.dstdir)>>)
    /\ UNCHANGED <<cfg, run, source, pre, prev>>
    /\ UNCHANGED others

\* copy_saves_for_rom up to _backup_save_files
CopyBegin ==
    \E c \in CopyConfigs :
        /\ Starts(c)
        /\ UNCHANGED <<fs, source, sg>>
        /\ ops' = <<>>
        /\ IF PossibleSaveFilesFails(c.src, rom)
           THEN pc' = "done" /\ idx' = 0 /\ result' = "error"
           ELSE IF PossibleSaveFilesNone(c.src, rom)
           THEN pc' = "done" /\ idx' = 0 /\ result' = "nosave"
           ELSE IF ActualSaveFilesRaises(fs, c.src, c.srcdir)
           THEN pc' = "done" /\ idx' = 0 /\ result' = "error"
           ELSE IF get_actual_save_files(fs, c.src, c.srcdir) = {}
           THEN pc' = "done" /\ idx' = 0 /\ result' = "nosave"
           ELSE IF PossibleSaveFilesFails(c.dst, rom)
           THEN pc' = "done" /\ idx' = 0 /\ result' = "error"
           ELSE IF PossibleSaveFilesNone(c.dst, rom)
           THEN \* nothing to back up, and _copy_save_files raises AttributeError on None
                pc' = "done" /\ idx' = 0 /\ result' = "identity_error"
           ELSE IF ActualSaveFilesRaises(fs, c.dst, c.dstdir)
           THEN pc' = "done" /\ idx' = 0 /\ result' = "error"
           ELSE EnterBackup(c, sg, fs, fs)

\* _copy_file on the next source file found at the start
CopyFile ==
    /\ pc = "write"
    /\ cfg.prog = "savecopy"
    /\ LET k == CopyKeys[idx]
           src_path == get_possible_save_files(cfg.src, cfg.srcdir)[k]
           dst_path == get_possible_save_files(cfg.dst, cfg.dstdir)[k]
           swap_endianness == CopySwaps(cfg.src, cfg.dst, k)
           pad_to == CopyPadTo(cfg.src, k)
           j == NextIn(WriteDue(cfg, sg, pre), idx + 1)
       IN IF src_path \notin DOMAIN fs
          THEN /\ pc' = "done" /\ idx' = 0 /\ result' = "error"
               /\ UNCHANGED <<fs, ops>>
          ELSE IF CopyFileRaises(fs[src_path].data, swap_endianness, pad_to)
          THEN /\ pc' = "done" /\ idx' = 0 /\ result' = "error"
               /\ ops' = Append(ops, <<"read", src_path>>)
               /\ UNCHANGED fs
          ELSE /\ fs' = WriteFile(fs, dst_path, CopyFileData(fs[src_path].data, swap_endianness, pad_to),
                                  fs[src_path].mtime)
               /\ ops' = ops \o <<<<"read", src_path>>, <<"write", dst_path>>>>
               /\ IF j # 0
                  THEN pc' = "write" /\ idx' = j /\ result' = "none"
                  ELSE pc' = "done" /\ idx' = 0 /\ result' = "ok"
    /\ UNCHANGED <<cfg, run, source, sg, pre, prev>>
    /\ UNCHANGED others

Next ==
    \/ Import
    \/ ExportBegin
    \/ BackupSaveFile
    \/ ExportToFile
    \/ ExportImage
    \/ CopyBegin
    \/ CopyFile

Spec == Init /\ [][Next]_vars

(***************************************************************************)
(* Properties                                                              *)
(***************************************************************************)

\* the paths written, and the paths renamed into backup/, by the conversion so far
Wrote == {ops[i][2] : i \in {j \in DOMAIN ops : ops[j][1] = "write"}}

Renamed == {ops[i][2] : i \in {j \in DOMAIN ops : ops[j][1] = "rename"}}

\* export_to_disk was called in this conversion
Exporting ==
    /\ cfg.prog = "savegame"
    /\ pc \in {"backup", "write"} \/ (pc = "done" /\ result \in {"ok", "skipped", "error"})

\* export_to_disk ran to its end
Exported == cfg.prog = "savegame" /\ pc = "done" /\ result = "ok"

\* no file of the destination directory existed when the conversion started
DestinationWasEmpty == \A q \in DOMAIN pre : q[1] # cfg.dstdir

\* two components hold the same bytes once both are in the same byte order
SameBytes(c1, c2) ==
    IF c1.endianness = c2.endianness THEN c1.data = c2.data
    ELSE ~SwapRaises(c1.data) /\ swap(c1.data) = c2.data

\* the state import_from_disk reads back from the destination in the destination's format
Reimported == ImportFromDisk(cfg.dst, fs, cfg.dstdir)

\* C1 as stated: after an export of a state with a component into an empty directory,
\* importing in the same format gives every component of the state again, with the same
\* length and, in a common byte order, the same bytes.
C1_RoundTrip ==
    (Exported /\ has_save(source) /\ DestinationWasEmpty) =>
        /\ ~ImportRaises(cfg.dst, fs, cfg.dstdir)
        /\ \A k \in KindSet : source.comp[k].present =>
              /\ Reimported.comp[k].present
              /\ BLen(Reimported.comp[k].data) = BLen(source.comp[k].data)
              /\ SameBytes(source.comp[k], Reimported.comp[k])

\* the components the amended round-trip law covers: those that have the size the format
\* stores them in and that the format's import does not take for an empty one
Survives(format, k, c) ==
    CASE format = "EVERDRIVE" -> TRUE
      [] format = "PROJECT64" ->
            /\ k = "flashram" => BLen(c.data) >= 131072
            /\ k \in MpkKinds => ~is_effectively_empty_memory_pak(c.data)
      [] format = "MUPEN64PLUS" ->
            CASE k = "eeprom" ->
                    \/ BLen(c.data) = 512 /\ c.data # Rep(0, 512)
                    \/ BLen(c.data) = 2048 /\ ~is_empty_data(Slice(c.data, 512, 2048))
              [] k = "sram" -> BLen(c.data) = 32768 /\ ~is_empty_data(c.data)
              [] k = "flashram" -> BLen(c.data) = 131072 /\ ~is_empty_data(c.data)
              [] OTHER -> BLen(c.data) = 32768 /\ ~is_effectively_empty_memory_pak(c.data)

\* C1 as amended: the round-trip law for the components that have the size the format
\* stores them in (any size in Everdrive files and in Project64's EEPROM, SRAM and pak
\* files, at least 131072 bytes for Project64's FlashRAM, 512 or 2048 bytes for the combined
\* image's EEPROM, 32768 for its SRAM and paks, 131072 for its FlashRAM) and that the
\* format's import does not take for empty (in the combined image an SRAM or FlashRAM of
\* one byte value 0x00 or 0xFF, a 512-byte EEPROM of 0x00, a 2048-byte EEPROM whose last
\* 1536 bytes are one byte value 0x00 or 0xFF; in the combined image and in Project64 a
\* factory-formatted pak).
C1_RoundTripOfSurvivors ==
    (Exported /\ has_save(source) /\ DestinationWasEmpty) =>
        /\ ~ImportRaises(cfg.dst, fs, cfg.dstdir)
        /\ \A k \in KindSet : (source.comp[k].present /\ Survives(cfg.dst, k, source.comp[k])) =>
              /\ Reimported.comp[k].present
              /\ BLen(Reimported.comp[k].data) = BLen(source.comp[k].data)
              /\ SameBytes(source.comp[k], Reimported.comp[k])

\* a combined image was written from a state whose 512-byte EEPROM, SRAM, FlashRAM and
\* four paks all come back
C1_Witness ==
    /\ Exported /\ DestinationWasEmpty
    /\ cfg.dst = "MUPEN64PLUS"
    /\ \A k \in KindSet : source.comp[k].present /\ Survives("MUPEN64PLUS", k, source.comp[k])
    /\ BLen(source.comp["eeprom"].data) = 512
    /\ source.comp["sram"].endianness = "BIG"

\* C2 as stated: a conversion whose source and destination directory are the same path
\* renames nothing and writes nothing, every file is as it was before the call, and the
\* conversion does not end normally.
C2_SameLocationFails ==
    (cfg.prog = "savecopy" /\ cfg.srcdir = cfg.dstdir) =>
        /\ Renamed = {}
        /\ Wrote = {}
        /\ fs = pre
        /\ ~(pc = "done" /\ result = "ok")

\* the fixed size the combined image requires of a component
ImageSize(k) ==
    CASE k = "eeprom" -> 2048
      [] k = "flashram" -> 131072
      [] OTHER -> 32768

\* C3 as stated: an export of a state with a component larger than the fixed size its
\* destination requires ends in an error and writes no destination file for that component:
\* in the combined image a component larger than its field, in the file-copy path a
\* Project64 FlashRAM file larger than the 131072 bytes it is padded to.
C3_NoSilentTruncation ==
    /\ ( /\ cfg.prog = "savegame" /\ cfg.dst = "MUPEN64PLUS"
         /\ pc = "done" /\ result \in {"ok", "error"}
         /\ \E k \in KindSet : source.comp[k].present /\ BLen(source.comp[k].data) > ImageSize(k) )
       => (result = "error" /\ Mupen64PlusSaveFile(cfg.dstdir) \notin Wrote)
    /\ ( /\ cfg.prog = "savecopy" /\ cfg.src = "PJ64" /\ cfg.dst \in {"ED64", "PJ64"}
         /\ pc = "done" /\ result \in {"ok", "error"}
         /\ get_possible_save_files("PJ64", cfg.srcdir)["flashram"] \in DOMAIN pre
         /\ BLen(pre[get_possible_save_files("PJ64", cfg.srcdir)["flashram"]].data) > 131072 )
       => (result = "error" /\ get_possible_save_files(cfg.dst, cfg.dstdir)["flashram"] \notin Wrote)

\* C4 as stated: of two runs of the same import-then-export with force = FALSE, a source with
\* a component and a destination directory that starts empty, the first run writes the
\* destination files, each with the state's timestamp as its modification time, and the
\* second run writes nothing and renames nothing.
C4_Idempotent ==
    (cfg.prog = "savegame" /\ ~cfg.force /\ pc = "done" /\ result \in {"ok", "skipped"}
        /\ has_save(source)) =>
        /\ (run = 1 /\ DestinationWasEmpty) =>
              /\ Wrote # {}
              /\ \A q \in Wrote : fs[q].mtime = source.timestamp
        /\ run >= 2 => (Wrote = {} /\ Renamed = {})

\* the files of the destination format's layout
DestinationLayout ==
    IF cfg.dst = "MUPEN64PLUS" THEN {Mupen64PlusSaveFile(cfg.dstdir)}
    ELSE {SaveFilesOf(cfg.dst, cfg.dstdir)[k] : k \in KindSet}

\* the files the export writes for the components the state has
DestinationTargets ==
    IF cfg.dst = "MUPEN64PLUS" THEN {Mupen64PlusSaveFile(cfg.dstdir)}
    ELSE {SaveFilesOf(cfg.dst, cfg.dstdir)[k] : k \in {j \in KindSet : source.comp[j].present}}

\* the destination layout had, when the conversion started, a file at least as new as the state
DestinationIsAsNew ==
    \E q \in DestinationLayout \cap DOMAIN pre : pre[q].mtime >= source.timestamp

\* C5: in an export with force = FALSE, if the newest modification time among the existing
\* files of the destination layout is greater than or equal to the state's timestamp, the
\* export writes no file and renames no file and leaves the file system as it was; with
\* force = TRUE the export is never skipped, and when it ends every file of a component of
\* the state has been written.
C5_DontClobberNewer ==
    Exporting =>
        /\ (~cfg.force /\ DestinationIsAsNew) =>
              /\ Wrote = {} /\ Renamed = {} /\ fs = pre
              /\ pc = "done" /\ result = "skipped"
        /\ cfg.force => result # "skipped"
        /\ (cfg.force /\ pc = "done" /\ result = "ok") => DestinationTargets \subseteq Wrote

\* an export into split files was skipped because a destination file has exactly the
\* state's timestamp, which is not zero
C5_Witness ==
    /\ Exporting /\ ~cfg.force /\ cfg.dst = "EVERDRIVE"
    /\ has_save(source) /\ source.timestamp > 0
    /\ \E q \in DestinationLayout \cap DOMAIN pre : pre[q].mtime = source.timestamp
    /\ \A q \in DestinationLayout \cap DOMAIN pre : pre[q].mtime <= source.timestamp
    /\ pc = "done" /\ result = "skipped"

\* the destination files the conversion is going to overwrite
Overwritten ==
    IF cfg.prog = "savegame" THEN DestinationTargets \cap DOMAIN pre
    ELSE {get_possible_save_files(cfg.dst, cfg.dstdir)[k] :
            k \in {j \in CopyKeySet : get_possible_save_files(cfg.src, cfg.srcdir)[j] \in DOMAIN pre}}
         \cap DOMAIN pre

\* C6: in a conversion with backup requested, once a destination file has been written,
\* every existing destination file the conversion is going to overwrite was renamed before
\* the first write, and backup/ holds it as it was.
C6_BackupPrecedesExport ==
    (cfg.backup /\ Wrote # {}) =>
        \A q \in Overwritten :
            /\ \E i \in DOMAIN ops :
                  /\ ops[i] = <<"rename", q>>
                  /\ \A j \in DOMAIN ops : ops[j][1] = "write" => i < j
            /\ BackupPath(q) \in DOMAIN fs
            /\ fs[BackupPath(q)] = pre[q]

\* the first of two split files is written while both existed before and both are in backup/
C6_Witness ==
    /\ cfg.prog = "savegame" /\ cfg.backup /\ cfg.dst = "EVERDRIVE"
    /\ Cardinality(Overwritten) >= 2
    /\ Cardinality(Wrote) = 1
    /\ Overwritten \subseteq Renamed

\* C7 as stated: within one conversion no source save file is read after the first rename
\* or write in the destination tree.
C7_ImportPrecedesChange ==
    \A i \in DOMAIN ops : \A j \in DOMAIN ops :
        (i < j /\ ops[i][1] \in {"rename", "write"}) => ops[j][1] # "read"

\* the offset of a component in the combined image
ImageOffset(k) ==
    CASE k = "eeprom" -> 0
      [] k = "mpk1" -> 2048
      [] k = "mpk2" -> 34816
      [] k = "mpk3" -> 67584
      [] k = "mpk4" -> 100352
      [] k = "sram" -> 133120
      [] k = "flashram" -> 165888

\* SRAM and FlashRAM are little-endian on disk in the combined image and in Project64
LittleOnDisk(format, k) == format \in {"MUPEN64PLUS", "PROJECT64"} /\ k \in {"sram", "flashram"}

\* the bytes of a component of the imported state in the byte order it has on disk
OnDisk(format, k) ==
    IF (source.comp[k].endianness = "LITTLE") = LittleOnDisk(format, k)
    THEN source.comp[k].data ELSE swap(source.comp[k].data)

\* the part of a component that fits the field of the combined image
Fit(k) == Min(BLen(source.comp[k].data), ImageSize(k))

\* C8: a combined-image export writes no file but <stem>.srm; when it has ended that file
\* has 296960 bytes, the fields follow each other without gaps in the order EEPROM, paks 1
\* to 4, SRAM, FlashRAM, and the bytes of each component of the state begin at its offset:
\* EEPROM at 0, the paks at 0x800, 0x8800, 0x10800 and 0x18800, SRAM at 0x20800, FlashRAM at
\* 0x28800.
C8_CombinedImageLayout ==
    (cfg.prog = "savegame" /\ cfg.dst = "MUPEN64PLUS") =>
        /\ Wrote \subseteq {<<cfg.dstdir, "Game.srm">>}
        /\ (pc = "done" /\ result = "ok") =>
              /\ Wrote = {<<cfg.dstdir, "Game.srm">>}
              /\ BLen(fs[<<cfg.dstdir, "Game.srm">>].data) = 296960
              /\ \A j \in 1..6 : ImageOffset(Kinds[j + 1]) = ImageOffset(Kinds[j]) + ImageSize(Kinds[j])
              /\ ImageOffset(Kinds[7]) + ImageSize(Kinds[7]) = 296960
              /\ \A k \in KindSet : source.comp[k].present =>
                    Slice(fs[<<cfg.dstdir, "Game.srm">>].data, ImageOffset(k), ImageOffset(k) + Fit(k))
                        = Slice(OnDisk("MUPEN64PLUS", k), 0, Fit(k))

\* a combined image was written from a state with a 512-byte EEPROM, a second pak and no
\* first pak
C8_Witness ==
    /\ Exported /\ cfg.dst = "MUPEN64PLUS"
    /\ source.comp["eeprom"].present /\ BLen(source.comp["eeprom"].data) = 512
    /\ source.comp["mpk2"].present /\ ~source.comp["mpk1"].present
    /\ Slice(fs[<<cfg.dstdir, "Game.srm">>].data, 34816, 34820) = FromSeq(Mpk(2))
    /\ BLen(fs[<<cfg.dstdir, "Game.srm">>].data) = 296960

\* byte i of the 4-byte-group reversal of x
Reversed4At(x, i) == ByteAt(x, 4 * (i \div 4) + 3 - (i % 4))

\* the bytes of a written component on disk: its file, or its field of the combined image
Written(k) ==
    IF cfg.dst = "MUPEN64PLUS"
    THEN Slice(fs[Mupen64PlusSaveFile(cfg.dstdir)].data, ImageOffset(k), ImageOffset(k) + Fit(k))
    ELSE fs[SaveFilesOf(cfg.dst, cfg.dstdir)[k]].data

\* the component was written in this conversion
IsWritten(k) ==
    IF cfg.dst = "MUPEN64PLUS" THEN Mupen64PlusSaveFile(cfg.dstdir) \in Wrote
    ELSE SaveFilesOf(cfg.dst, cfg.dstdir)[k] \in Wrote

\* C9: whatever format a component was imported from, the bytes written for it are those of
\* its big-endian content for EEPROM and paks in all three formats and for SRAM and FlashRAM
\* in the Everdrive format, and the 4-byte-group reversal of its big-endian content for SRAM
\* and FlashRAM in the combined image and in Project64: big-endian "sram" is written as
\* "mars".
C9_DiskByteOrder ==
    cfg.prog = "savegame" =>
        \A k \in KindSet : (source.comp[k].present /\ IsWritten(k)) =>
            LET c == source.comp[k]
                n == IF cfg.dst = "MUPEN64PLUS" THEN Fit(k) ELSE BLen(c.data)
                same == (c.endianness = "LITTLE") = LittleOnDisk(cfg.dst, k)
            IN /\ BLen(Written(k)) = n
               /\ Written(k) = Slice(OnDisk(cfg.dst, k), 0, n)
               /\ \A i \in 0..(Min(n, 8) - 1) :
                     ByteAt(Written(k), i) = IF same THEN ByteAt(c.data, i) ELSE Reversed4At(c.data, i)
               /\ (k = "sram" /\ c.endianness = "BIG" /\ LittleOnDisk(cfg.dst, k)
                       /\ Slice(c.data, 0, 4) = FromSeq(Sram))
                     => Slice(Written(k), 0, 4) = FromSeq(Mars)

\* big-endian "sram" from Everdrive files is in the combined image as "mars" at 0x20800,
\* and "flas" as "salf" at 0x28800
C9_Witness ==
    /\ Exported /\ cfg.src = "EVERDRIVE" /\ cfg.dst = "MUPEN64PLUS"
    /\ source.comp["sram"].present /\ Slice(source.comp["sram"].data, 0, 4) = FromSeq(Sram)
    /\ source.comp["flashram"].present /\ Slice(source.comp["flashram"].data, 0, 4) = FromSeq(Flas)
    /\ Slice(fs[<<"B", "Game.srm">>].data, 133120, 133124) = FromSeq(Mars)
    /\ Slice(fs[<<"B", "Game.srm">>].data, 165888, 165892) = FromSeq(Salf)

\* C10: every component that is absent in a state is absent in the state imported from the
\* combined image the state was exported to; the field written for it holds the default
\* fill: 0x00 for EEPROM (an empty EEPROM, null-padded), 0xFF for SRAM and FlashRAM, the
\* factory-formatted pak for a pak.
C10_AbsentStaysAbsent ==
    (Exported /\ cfg.dst = "MUPEN64PLUS") =>
        /\ ~Mupen64PlusImportRaises(fs, cfg.dstdir)
        /\ \A k \in KindSet : ~source.comp[k].present =>
              /\ ~Mupen64PlusImport(fs, cfg.dstdir).comp[k].present
              /\ Slice(fs[Mupen64PlusSaveFile(cfg.dstdir)].data, ImageOffset(k), ImageOffset(k) + ImageSize(k))
                    = CASE k = "eeprom" -> Rep(0, 2048)
                        [] k = "sram" -> Rep(255, 32768)
                        [] k = "flashram" -> Rep(255, 131072)
                        [] OTHER -> FORMATTED_MPK

\* a combined image was written from a state with an EEPROM, no FlashRAM and no pak, and
\* the import of the image has the EEPROM, no FlashRAM and no pak
C10_Witness ==
    /\ Exported /\ cfg.dst = "MUPEN64PLUS"
    /\ source.comp["eeprom"].present
    /\ \A k \in MpkKinds \cup {"flashram"} : ~source.comp[k].present
    /\ Mupen64PlusImport(fs, cfg.dstdir).comp["eeprom"].present
    /\ \A k \in MpkKinds \cup {"flashram"} : ~Mupen64PlusImport(fs, cfg.dstdir).comp[k].present

\* no file of the source layout existed when copy_saves_for_rom was called
NoSourceSave ==
    /\ cfg.prog = "savecopy"
    /\ cfg.src \in {"ED64", "PJ64"}
    /\ \A k \in CopyKeySet : get_possible_save_files(cfg.src, cfg.srcdir)[k] \notin DOMAIN pre

IdentityUnresolved == SwappingNeededRaises(ByteAt(rom, 0))

\* the source or the destination format is keyed by the identity of the ROM
UsesProject64 == cfg.src \in {"PROJECT64", "PJ64"} \/ cfg.dst \in {"PROJECT64", "PJ64"}

\* C12: when the identity of the ROM cannot be resolved and the source or the destination
\* format is Project64, a conversion that has ended has ended as a failure; it has not
\* returned normally as "no save found", "already current" or done.
C12_IdentityFailureReported ==
    (IdentityUnresolved /\ UsesProject64 /\ pc = "done") =>
        result \in {"error", "import_error", "identity_error"}

\* the name savecopy.py has for a format with split files, "none" for the other formats
SplitFormat(format) ==
    CASE format \in {"EVERDRIVE", "ED64"} -> "ED64"
      [] format \in {"PROJECT64", "PJ64"} -> "PJ64"
      [] OTHER -> "none"

\* when the conversion started, the directory held the pak file named after the game and a
\* pak file named after a controller, in the layout of a format with split files
AmbiguousPakLayout(format, savedir) ==
    /\ SplitFormat(format) # "none"
    /\ get_possible_save_files(SplitFormat(format), savedir)["mpk"] \in DOMAIN pre
    /\ \E k \in {"mpks1", "mpks2", "mpks3", "mpks4"} :
          get_possible_save_files(SplitFormat(format), savedir)[k] \in DOMAIN pre

\* C13: when the source or the destination directory holds both the bare-name pak file and
\* a per-slot pak file, the conversion renames and writes nothing, and when it has ended it
\* has ended with an error; a conversion that stopped because the source holds no save at
\* all is left aside.
C13_AmbiguousPakLayoutReported ==
    (cfg.prog # "none" /\ result # "nosave"
     /\ (AmbiguousPakLayout(cfg.src, cfg.srcdir) \/ AmbiguousPakLayout(cfg.dst, cfg.dstdir))) =>
        /\ Wrote = {} /\ Renamed = {}
        /\ pc = "done" => result \in {"error", "import_error", "identity_error"}

(***************************************************************************)
(* swap on its own: every buffer up to a length, every pair of flags       *)
(***************************************************************************)

\* the buffers handed to swap are at most this long
MaxSwapLen == 8

\* the bytes of the buffers handed to swap
SwapBytes == {1, 2}

\* the variables of the conversion of one ROM
conversion == <<fs, cfg, run, pc, idx, source, sg, pre, ops, result, prev>>

\* no conversion is under way and no file is there
NoConversion ==
    /\ fs = <<>>
    /\ cfg = NoConfig
    /\ run = 0
    /\ pc = "idle"
    /\ idx = 0
    /\ source = NewSavegame
    /\ sg = NewSavegame
    /\ pre = <<>>
    /\ ops = <<>>
    /\ result = "none"
    /\ prev = [ops |-> <<>>, result |-> "none"]
    /\ rom = <<>>

SwapInit ==
    /\ NoConversion
    /\ rom_call = NoCall
    /\ batch = NoCall
    /\ \E n \in 0..MaxSwapLen, byteswap \in BOOLEAN, halfwordswap \in BOOLEAN :
          \E s \in [1..n -> SwapBytes] :
              swap_call = [state |-> "called", arg |-> FromSeq(s), arr |-> FromSeq(s),
                           byteswap |-> byteswap, halfwordswap |-> halfwordswap]

\* swap(arr, byteswap, halfwordswap): arr is changed in place, or IOError is raised
Swap ==
    /\ swap_call.state = "called"
    /\ swap_call' =
          IF SwapRaises(swap_call.arr)
          THEN [swap_call EXCEPT !.state = "raised"]
          ELSE [swap_call EXCEPT !.state = "returned",
                                 !.arr = SwapFlags(swap_call.arr, swap_call.byteswap, swap_call.halfwordswap)]
    /\ UNCHANGED <<conversion, rom, rom_call, batch>>

SwapSpec == SwapInit /\ [][Swap]_vars

\* the 4-byte group g of a buffer
Group(x, g) == <<ByteAt(x, 4 * g), ByteAt(x, 4 * g + 1), ByteAt(x, 4 * g + 2), ByteAt(x, 4 * g + 3)>>

\* C14: for a buffer whose length is a multiple of 4, swap raises nothing and keeps the
\* length, and every 4-byte group [b0,b1,b2,b3] of the buffer has become [b3,b2,b1,b0]
\* with both flags, [b1,b0,b3,b2] with byteswap alone, [b2,b3,b0,b1] with halfwordswap
\* alone, and is unchanged with neither: each group is made of its own bytes only.
C14_SwapPermutesGroups ==
    (swap_call.state \in {"returned", "raised"} /\ BLen(swap_call.arg) % 4 = 0) =>
        /\ swap_call.state = "returned"
        /\ BLen(swap_call.arr) = BLen(swap_call.arg)
        /\ \A g \in 0..((BLen(swap_call.arg) \div 4) - 1) :
              LET b == Group(swap_call.arg, g)
              IN Group(swap_call.arr, g) =
                    IF swap_call.byteswap /\ swap_call.halfwordswap THEN <<b[4], b[3], b[2], b[1]>>
                    ELSE IF swap_call.byteswap THEN <<b[2], b[1], b[4], b[3]>>
                    ELSE IF swap_call.halfwordswap THEN <<b[3], b[4], b[1], b[2]>>
                    ELSE b

\* swap returned for a buffer of two groups that differ and that byteswap alone changes
C14_Witness ==
    /\ swap_call.state = "returned"
    /\ swap_call.byteswap /\ ~swap_call.halfwordswap
    /\ BLen(swap_call.arg) = 8
    /\ Group(swap_call.arg, 0) = <<1, 2, 2, 2>>
    /\ Group(swap_call.arg, 1) = <<2, 2, 2, 1>>
    /\ Group(swap_call.arr, 0) = <<2, 1, 2, 2>>
    /\ Group(swap_call.arr, 1) = <<2, 2, 1, 2>>

\* C15: in an import followed by an export, the buffer the next step hands to swap has a
\* length that is a multiple of 4: the set_endianness of the component about to be written,
\* and of every component of the combined image about to be packed, does not raise.
C15_SwapNeverMisused ==
    (cfg.prog = "savegame" /\ pc = "write") =>
        IF cfg.dst = "MUPEN64PLUS"
        THEN Mupen64PlusFirstRaise(sg) = 0
        ELSE ~SetEndiannessRaises(sg.comp[ExportOrder[idx]], DiskEndianness(cfg.dst, ExportOrder[idx]))

(***************************************************************************)
(* get_rom_info on its own: the four byte orders of a ROM                  *)
(***************************************************************************)

\* a ROM has at most this many 4-byte groups after its header
MaxPayload == 2

\* the internal names of the ROMs: GAMENAME, "A B" and the empty name
RomNames == {GameName, <<65, 32, 66>>, <<>>}

\* the media format bytes of the ROMs: N, C and a byte that is no media format
RomMedia == {78, 67, 1}

\* the lengths ROM files are cut to: half a header, or nothing cut
RomCuts == {32, 0}

\* a big-endian ROM: the header of create_rom with the media format byte set, then the
\* groups of the payload, or the ROM cut to a length
RomContent(name, media, payload, cut) ==
    LET header == Cat(Cat(Slice(create_rom(name), 0, 59), Rep(media, 1)), Slice(create_rom(name), 60, 64))
        whole == Cat(header, FromSeq([i \in 1..(4 * payload) |-> i]))
    IN IF cut = 0 THEN whole ELSE Slice(whole, 0, cut)

\* the file of a big-endian ROM in one of the four byte orders: first byte 0x80 (.z64),
\* 0x37 (.v64), 0x40 (.n64), 0x12
ByteOrderVariant(content, v) ==
    CASE v = 1 -> content
      [] v = 2 -> SwapFlags(content, TRUE, FALSE)
      [] v = 3 -> SwapFlags(content, TRUE, TRUE)
      [] v = 4 -> SwapFlags(content, FALSE, TRUE)

\* what a call of get_rom_info comes to: an exception, None, or the N64RomInfo with the
\* bytes that were hashed and the Project64 directory made of it
RomOutcome(file) ==
    IF GetRomInfoRaises(file)
    THEN [kind |-> "raised", little |-> <<>>, info |-> RomInfoNone, key |-> <<>>]
    ELSE IF get_rom_info(file).none
    THEN [kind |-> "none", little |-> <<>>, info |-> RomInfoNone, key |-> <<>>]
    ELSE [kind |-> "info", little |-> RomLittleEndian(file), info |-> get_rom_info(file),
          key |-> Project64Directory(get_rom_info(file))]

RomInit ==
    /\ NoConversion
    /\ swap_call = NoCall
    /\ batch = NoCall
    /\ \E name \in RomNames, media \in RomMedia, payload \in 0..MaxPayload, cut \in RomCuts :
          /\ cut = 0 \/ payload = 0
          /\ rom_call = [state |-> "called", media |-> media,
                         content |-> RomContent(name, media, payload, cut), done |-> <<>>]

\* get_rom_info(rom_path) on the next of the four files of the ROM
GetRomInfo ==
    /\ rom_call.state = "called"
    /\ Len(rom_call.done) < 4
    /\ rom_call' = [rom_call EXCEPT
          !.done = Append(@, RomOutcome(ByteOrderVariant(rom_call.content, Len(rom_call.done) + 1)))]
    /\ UNCHANGED <<conversion, rom, swap_call, batch>>

RomSpec == RomInit /\ [][GetRomInfo]_vars

\* C16: the files of one ROM in the four byte orders come to the same outcome of
\* get_rom_info: the same bytes are hashed, the little-endian order of the ROM, so the hash
\* and the Project64 directory are the same; a ROM with a whole header and a media format
\* has an identity.
C16_ByteOrderIndependent ==
    rom_call.state = "called" =>
        /\ \A i, j \in DOMAIN rom_call.done : rom_call.done[i] = rom_call.done[j]
        /\ \A i \in DOMAIN rom_call.done :
              (BLen(rom_call.content) >= 64 /\ rom_call.media \in MediaFormat) =>
                  /\ rom_call.done[i].kind = "info"
                  /\ rom_call.done[i].little = swap(rom_call.content)
                  /\ rom_call.done[i].info.hash_little_endian_md5 = Md5HexDigest(swap(rom_call.content))
                  /\ rom_call.done[i].key = <<rom_call.done[i].info.internal_name,
                                             Md5HexDigest(swap(rom_call.content))>>

\* the four files of the ROM named GAMENAME with a payload were read, they differ, and
\* each gave the identity of the ROM
C16_Witness ==
    /\ rom_call.state = "called"
    /\ Len(rom_call.done) = 4
    /\ BLen(rom_call.content) > 64
    /\ \A v \in 1..4 : ByteAt(ByteOrderVariant(rom_call.content, v), 0) = <<128, 55, 64, 18>>[v]
    /\ \A v, w \in 1..4 : v # w => ByteOrderVariant(rom_call.content, v) # ByteOrderVariant(rom_call.content, w)
    /\ \A i \in 1..4 : rom_call.done[i].kind = "info" /\ rom_call.done[i].info.internal_name = GameName

\* a state with an EEPROM of 512 bytes was exported to the combined image
Eeprom512Exported ==
    /\ Exported /\ cfg.dst = "MUPEN64PLUS"
    /\ source.comp["eeprom"].present
    /\ BLen(source.comp["eeprom"].data) = EEPROM_BYTESIZES[1]

\* the EEPROM exported is at bytes 0..511 of the combined image, and the import of the
\* image has an EEPROM of exactly these 512 bytes
Eeprom512Kept ==
    /\ Slice(fs[Mupen64PlusSaveFile(cfg.dstdir)].data, 0, EEPROM_BYTESIZES[1]) = source.comp["eeprom"].data
    /\ ~Mupen64PlusImportRaises(fs, cfg.dstdir)
    /\ Mupen64PlusImport(fs, cfg.dstdir).comp["eeprom"].present
    /\ Mupen64PlusImport(fs, cfg.dstdir).comp["eeprom"].data = source.comp["eeprom"].data

\* C17 as stated: any 512-byte EEPROM exported to the combined image is at bytes 0..511
\* of the file unchanged, and the import of that file has an EEPROM of exactly these 512
\* bytes.
C17_Eeprom512RoundTrip == Eeprom512Exported => Eeprom512Kept

\* C17, amended: any 512-byte EEPROM that is not 512 bytes of 0x00 is at bytes 0..511 of
\* the combined image unchanged, and the import of the image has an EEPROM of exactly
\* these 512 bytes; an EEPROM of 512 bytes 0x00 is at bytes 0..511 too, and the import has
\* no EEPROM.
C17_NonNullEeprom512RoundTrip ==
    Eeprom512Exported =>
        IF source.comp["eeprom"].data = Rep(0, EEPROM_BYTESIZES[1])
        THEN /\ Slice(fs[Mupen64PlusSaveFile(cfg.dstdir)].data, 0, EEPROM_BYTESIZES[1]) = Rep(0, EEPROM_BYTESIZES[1])
             /\ ~Mupen64PlusImport(fs, cfg.dstdir).comp["eeprom"].present
        ELSE Eeprom512Kept

\* an EEPROM of 512 bytes 0xFF was exported to the combined image and is read back
C17_Witness ==
    /\ Eeprom512Exported
    /\ source.comp["eeprom"].data = Rep(255, EEPROM_BYTESIZES[1])
    /\ BLen(fs[Mupen64PlusSaveFile(cfg.dstdir)].data) = StructSize
    /\ Mupen64PlusImport(fs, cfg.dstdir).comp["eeprom"].data = Rep(255, EEPROM_BYTESIZES[1])

(***************************************************************************)
(* copy_saves_for_all_roms: the batch run over a directory of ROMs         *)
(***************************************************************************)

\* the ROM directory holds at most this many files
MaxRoms == 3

\* the files a ROM directory may hold, as paths below it; a part is its characters' codes:
\* b.z64, a.n64, c.v64, a.txt, B.Z64 and, in the directory s, a.z64
RomDirFiles ==
    {<<<<98, 46, 122, 54, 52>>>>, <<<<97, 46, 110, 54, 52>>>>, <<<<99, 46, 118, 54, 52>>>>,
     <<<<97, 46, 116, 120, 116>>>>, <<<<66, 46, 90, 54, 52>>>>,
     <<<<115>>, <<97, 46, 122, 54, 52>>>>}

\* rom_file_pattern "*.[nvz]64" matches the name
MatchesRomFilePattern(name) ==
    /\ Len(name) >= 4
    /\ SubSeq(name, Len(name) - 3, Len(name)) \in {<<46, c, 54, 52>> : c \in {110, 118, 122}}

\* rom_dir.rglob(rom_file_pattern) if recursive else rom_dir.glob(rom_file_pattern)
GlobRoms(files, recursive) ==
    {p \in files : MatchesRomFilePattern(p[Len(p)]) /\ (recursive \/ Len(p) = 1)}

\* the order of two sequences of numbers, the first difference deciding
SeqLess(s, t) ==
    \E i \in 1..(Len(s) + 1) :
        /\ i <= Len(t)
        /\ \A j \in 1..(i - 1) : s[j] = t[j]
        /\ i = Len(s) + 1 \/ s[i] < t[i]

\* the order of two paths: the order of their first parts that differ
PathLess(p, q) ==
    \E i \in 1..(Len(p) + 1) :
        /\ i <= Len(q)
        /\ \A j \in 1..(i - 1) : p[j] = q[j]
        /\ i = Len(p) + 1 \/ SeqLess(p[i], q[i])

\* sorted(paths)
SortedPaths(S) ==
    [j \in 1..Cardinality(S) |-> CHOOSE p \in S : Cardinality({q \in S : PathLess(q, p)}) = j - 1]

BatchInit ==
    /\ NoConversion
    /\ swap_call = NoCall
    /\ rom_call = NoCall
    /\ \E files \in SUBSET RomDirFiles, is_dir \in BOOLEAN, recursive \in BOOLEAN :
          /\ Cardinality(files) <= MaxRoms
          /\ is_dir \/ (files = {} /\ ~recursive)
          /\ batch = [state |-> "called", is_dir |-> is_dir, files |-> files, recursive |-> recursive,
                      rom_paths |-> <<>>, started |-> <<>>, raised |-> <<>>]

\* copy_saves_for_all_roms up to its loop: FileNotFoundError, or the sorted list of ROMs
BatchBegin ==
    /\ batch.state = "called"
    /\ batch' = IF ~batch.is_dir
                THEN [batch EXCEPT !.state = "raised"]
                ELSE [batch EXCEPT !.state = "running",
                                   !.rom_paths = SortedPaths(GlobRoms(batch.files, batch.recursive))]
    /\ UNCHANGED <<conversion, rom, swap_call, rom_call>>

\* one round of the loop: copy_saves_for_rom(rom_path, ...) returns
BatchConvertReturns ==
    /\ batch.state = "running"
    /\ Len(batch.started) < Len(batch.rom_paths)
    /\ batch' = [batch EXCEPT !.started = Append(@, batch.rom_paths[Len(@) + 1])]
    /\ UNCHANGED <<conversion, rom, swap_call, rom_call>>

\* one round of a loop that catches what copy_saves_for_rom raises and goes on
BatchConvertCaught ==
    /\ batch.state = "running"
    /\ Len(batch.started) < Len(batch.rom_paths)
    /\ batch' = [batch EXCEPT !.started = Append(@, batch.rom_paths[Len(@) + 1]),
                              !.raised = Append(@, batch.rom_paths[Len(batch.started) + 1])]
    /\ UNCHANGED <<conversion, rom, swap_call, rom_call>>

\* one round of the loop: copy_saves_for_rom(rom_path, ...) raises, and nothing catches it
BatchConvertRaises ==
    /\ batch.state = "running"
    /\ Len(batch.started) < Len(batch.rom_paths)
    /\ batch' = [batch EXCEPT !.started = Append(@, batch.rom_paths[Len(@) + 1]),
                              !.raised = Append(@, batch.rom_paths[Len(batch.started) + 1]),
                              !.state = "raised"]
    /\ UNCHANGED <<conversion, rom, swap_call, rom_call>>

\* the loop is over: copy_saves_for_all_roms returns
BatchEnd ==
    /\ batch.state = "running"
    /\ Len(batch.started) = Len(batch.rom_paths)
    /\ batch' = [batch EXCEPT !.state = "returned"]
    /\ UNCHANGED <<conversion, rom, swap_call, rom_call>>

BatchNext ==
    \/ BatchBegin
    \/ BatchConvertReturns
    \/ BatchConvertRaises
    \/ BatchEnd

BatchSpec == BatchInit /\ [][BatchNext]_vars

\* the files of the ROM directory the batch run is for: the names match the pattern, in
\* the directory itself or, for a recursive run, below it
MatchingRoms ==
    {p \in batch.files :
        /\ batch.recursive \/ Len(p) = 1
        /\ \E c \in {110, 118, 122} : p[Len(p)] = SubSeq(p[Len(p)], 1, Len(p[Len(p)]) - 4) \o <<46, c, 54, 52>>}

\* C18: at every point of a batch run the ROMs whose conversion was started are matching
\* ROM files in ascending order, each once, and no matching file below a started one was
\* left out: they are a prefix of the sorted list.  A conversion that raised is the last
\* one started and the batch run has ended with its error; a batch run that returned has
\* converted every matching file and none raised.
C18_BatchIsSortedPrefix ==
    batch.state # "none" =>
        /\ \A i \in DOMAIN batch.started : batch.started[i] \in MatchingRoms
        /\ \A i, j \in DOMAIN batch.started : i < j => PathLess(batch.started[i], batch.started[j])
        /\ \A p \in MatchingRoms : \A i \in DOMAIN batch.started :
              PathLess(p, batch.started[i]) => \E j \in 1..(i - 1) : batch.started[j] = p
        /\ batch.raised # <<>> =>
              /\ batch.state = "raised"
              /\ Len(batch.raised) = 1
              /\ batch.raised[1] = batch.started[Len(batch.started)]
        /\ batch.state = "returned" =>
              /\ batch.raised = <<>>
              /\ {batch.started[i] : i \in DOMAIN batch.started} = MatchingRoms

\* a recursive batch run over a.n64, b.z64 and s/a.z64 that ended with the error of the
\* second ROM: a.n64 and b.z64 were started, s/a.z64 was not
C18_Witness ==
    /\ batch.state = "raised"
    /\ batch.recursive
    /\ MatchingRoms = {<<<<97, 46, 110, 54, 52>>>>, <<<<98, 46, 122, 54, 52>>>>,
                       <<<<115>>, <<97, 46, 122, 54, 52>>>>}
    /\ batch.started = <<<<<<97, 46, 110, 54, 52>>>>, <<<<98, 46, 122, 54, 52>>>>>>
    /\ batch.raised = <<<<<<98, 46, 122, 54, 52>>>>>>

\* the destination files that existed when the conversion started and whose component the
\* conversion does not write: the component is None in the state exported (savegame.py),
\* the source file of the key does not exist (savecopy.py)
DestinationFilesOfAbsent ==
    IF cfg.prog = "savegame"
    THEN {SaveFilesOf(cfg.dst, cfg.dstdir)[k] : k \in {j \in KindSet : ~source.comp[j].present}}
            \cap DOMAIN pre
    ELSE {get_possible_save_files(cfg.dst, cfg.dstdir)[k] :
            k \in {j \in CopyKeySet : get_possible_save_files(cfg.src, cfg.srcdir)[j] \notin DOMAIN pre}}
            \cap DOMAIN pre

\* an export to a format with split files is under way or over
SplitExport ==
    \/ Exporting /\ cfg.dst # "MUPEN64PLUS"
    \/ cfg.prog = "savecopy" /\ cfg.dst \in {"ED64", "PJ64"} /\ (pc \in {"backup", "write"} \/ result = "ok")

\* C19: during and after an export, every destination file that existed before and whose
\* component is absent from the exported state is at its path with the content and the
\* modification time it had, whether a backup is requested or not.
C19_AbsentComponentFileUntouched ==
    SplitExport =>
        \A q \in DestinationFilesOfAbsent : q \in DOMAIN fs /\ fs[q] = pre[q]

\* C20: when no file of the destination layout existed, an export of a state with a
\* component that has returned has not returned early: it has written the file of every
\* component the state has (the one image for the combined format), whatever force and the
\* state's timestamp are.
C20_GuardNeverBlocksFirstExport ==
    (cfg.prog = "savegame" /\ pc = "done" /\ result \in {"ok", "skipped"} /\ has_save(source)
        /\ DestinationLayout \cap DOMAIN pre = {}) =>
        /\ result = "ok"
        /\ IF cfg.dst = "MUPEN64PLUS"
           THEN Mupen64PlusSaveFile(cfg.dstdir) \in Wrote
           ELSE \A k \in KindSet : source.comp[k].present => SaveFilesOf(cfg.dst, cfg.dstdir)[k] \in Wrote

\* the file of the same name in the directory backup/ beside a file
SiblingBackup(q) == SubSeq(q, 1, Len(q) - 1) \o <<"backup", q[Len(q)]>>

\* the files of the destination layout that existed when the conversion started
DestinationFilesBefore ==
    IF cfg.prog = "savegame" THEN DestinationLayout \cap DOMAIN pre
    ELSE {get_possible_save_files(cfg.dst, cfg.dstdir)[k] : k \in CopyKeySet} \cap DOMAIN pre

\* a conversion that backs up is under way or over, whatever its outcome
BackingUp ==
    /\ cfg.backup
    /\ cfg.prog = "savegame" \/ (cfg.prog = "savecopy" /\ cfg.dst \in {"ED64", "PJ64"})

\* C21: with backup requested, at every step of an export and after it, whether it
\* completed, was skipped or failed, the bytes of every file that existed in the
\* destination layout before the call are on disk: at the file's path, or in the directory
\* backup/ beside it under the same file name.
C21_BackupLosesNothing ==
    BackingUp =>
        \A q \in DestinationFilesBefore :
            \/ q \in DOMAIN fs /\ fs[q].data = pre[q].data
            \/ SiblingBackup(q) \in DOMAIN fs /\ fs[SiblingBackup(q)].data = pre[q].data

\* an export with backup failed after it had renamed the destination files and written
\* one of them anew: the old bytes of that file are in backup/ only
C21_Witness ==
    /\ BackingUp
    /\ cfg.prog = "savegame"
    /\ pc = "done" /\ result = "error"
    /\ \E q \in DestinationFilesBefore :
          /\ q \in Renamed /\ q \in Wrote
          /\ fs[q].data # pre[q].data
          /\ fs[SiblingBackup(q)].data = pre[q].data
    /\ \E q \in DestinationFilesBefore : q \in Renamed /\ q \notin DOMAIN fs

=============================================================================
